---------------------------- MODULE Spec2Model ----------------------------
(***************************************************************************)
(* A model of the reconciliation core of the launcher:                     *)
(*   - WabbajackService   (installed-modpack registry resolution),         *)
(*   - ResolutionService  (resolution list, cache, graphics-ini rewrite).  *)
(* Every definition is translated from the TypeScript source; the comment  *)
(* before a definition quotes or names the code it models.                 *)
(***************************************************************************)
EXTENDS Integers, Sequences, FiniteSets, TLC

VARIABLES
    \* ---- file system read by WabbajackService
    v2File,     \* <LocalAppData>/Wabbajack/installed_modlists.json
    v3Dir,      \* <LocalAppData>/Wabbajack/saved_settings, in readdir order
    wjCall,     \* the WabbajackService call made, with its outcome
    \* ---- ResolutionService and what it reads
    platform,          \* os.platform()
    display,           \* screen.getPrimaryDisplay(): size and scaleFactor
    prefs,             \* the user preference store (electron-store)
    resolutionsCache,  \* ResolutionService.resolutionsCache
    grCalls,           \* the getResolutions calls: position, locals, result
    srCalls,           \* the setResolution calls: position and locals
    iniFile,           \* SSEDisplayTweaks.ini
    \* ---- ConfigService
    defaultsCall       \* the setDefaultPreferences call made: argument, store before

wjVars == <<v2File, v3Dir, wjCall>>

resVars == <<platform, display, prefs, resolutionsCache, grCalls, srCalls, iniFile>>

cfgVars == <<defaultsCall>>

vars == <<v2File, v3Dir, wjCall,
          platform, display, prefs, resolutionsCache, grCalls, srCalls, iniFile,
          defaultsCall>>

\* ------------------------------------------------------------------------
\* Bounds of the model.
\* ------------------------------------------------------------------------
\* most files in saved_settings
MaxFiles == 2
\* modification times are 1..MaxMtime
MaxMtime == 2
\* most modlist entries in installed_modlists.json
MaxLegacy == 1

InstallPaths == {"C:/Wildlander", "D:/Games/Other"}

\* Metadata of an install-settings file.  Metadata is optional in the file.
MetadataValues ==
    { [title |-> "Wildlander", version |-> "1.1.0"],
      [title |-> "Ultimate Skyrim", version |-> "4.0.6"] }

\* The parsed JSON of an install-settings file (WabbajackInstallSettings).
InstallSettings ==
    [InstallLocation : InstallPaths]
      \cup [InstallLocation : InstallPaths, Metadata : MetadataValues]

\* The file names a saved_settings directory holds: install markers (random
\* hash in the name) and other settings files.
InstallSettingsNames == {"install-settings-3f9a.json"}
OtherNames == {"mainwindow-settings.json"}

\* A file of saved_settings: name, whether JSON.parse accepts it, its parsed
\* contents and its mtime.
V3Files ==
    [name : InstallSettingsNames, parses : {TRUE},
     contents : InstallSettings, mtime : 1..MaxMtime]
      \cup [name : InstallSettingsNames, parses : {FALSE},
            contents : {[InstallLocation |-> "C:/Wildlander"]}, mtime : {1}]
      \cup [name : OtherNames, parses : {FALSE},
            contents : {[InstallLocation |-> "C:/Wildlander"]}, mtime : {1}]

\* An entry of installed_modlists.json (WabbajackV2SettingsFile).
LegacyEntries ==
    [InstallationPath : InstallPaths,
     ModList : { [Name |-> "Wildlander", Version |-> "1.0.0"],
                 [Name |-> "Ultimate Skyrim", Version |-> "4.0.5"] }]

\* ------------------------------------------------------------------------
\* JavaScript objects used as maps: functions with a finite domain of keys.
\* ------------------------------------------------------------------------
\* {}
EmptyObject == [k \in {} |-> k]

\* { ...a, ...b }: the keys of both, b's value where both have the key.
Spread(a, b) == b @@ a

\* file.startsWith("install-settings")
StartsWithInstallSettings(name) == name \in InstallSettingsNames

\* ------------------------------------------------------------------------
\* WabbajackService.getInstalledModpacksFromWabbajackV2
\* ------------------------------------------------------------------------
\* Object.keys(modpackMeta): "$type" first, then one key per modlist.
V2Keys(file) ==
    <<"$type">> \o [i \in 1..Len(file.entries) |-> "modlist" \o ToString(i)]

\* modpackMeta[key] for a key other than "$type".
V2Entry(file, key) ==
    file.entries[CHOOSE i \in 1..Len(file.entries) :
                     "modlist" \o ToString(i) = key]

\* The record the reducer stores for one legacy entry: no lastUpdated.
ModpackRecordV2(entry) ==
    [title |-> entry.ModList.Name,
     installPath |-> entry.InstallationPath,
     version |-> entry.ModList.Version]

RECURSIVE ReduceV2(_, _, _)
ReduceV2(file, keys, accumulator) ==
    IF keys = <<>> THEN accumulator
    ELSE LET current == V2Entry(file, Head(keys))
         IN  ReduceV2(file, Tail(keys),
                      Spread(accumulator,
                             current.InstallationPath :> ModpackRecordV2(current)))

\* Result: [ok |-> FALSE] when JSON.parse throws, else the mapping.
GetInstalledModpacksFromWabbajackV2(file) ==
    IF ~file.parses THEN [ok |-> FALSE, value |-> EmptyObject]
    ELSE [ok |-> TRUE,
          value |-> ReduceV2(file,
                             SelectSeq(V2Keys(file), LAMBDA key : key # "$type"),
                             EmptyObject)]

\* ------------------------------------------------------------------------
\* WabbajackService.getInstalledModpacksFromWabbajackV3
\* ------------------------------------------------------------------------
\* readdir(...).filter(file => file.startsWith("install-settings"))
InstallSettingsFiles(dir) ==
    SelectSeq(dir, LAMBDA f : StartsWithInstallSettings(f.name))

\* The entry of modlists pushed for one file.
Modlist(f) == [contents |-> f.contents, lastUpdated |-> f.mtime]

\* The record the reducer stores; title and version are undefined (absent)
\* when the file has no Metadata.
ModpackRecordV3(current) ==
    LET base == [installPath |-> current.contents.InstallLocation,
                 lastUpdated |-> current.lastUpdated]
    IN  IF "Metadata" \in DOMAIN current.contents
        THEN [title |-> current.contents.Metadata.title,
              version |-> current.contents.Metadata.version] @@ base
        ELSE base

\* A reducer that never keeps the accumulator: the file listed last wins.
KeepsAccumulatorOverwrite(accumulator, current) == FALSE

\* A reducer that also keeps the accumulator on equal times.
KeepsAccumulatorOnTies(accumulator, current) ==
    LET loc == current.contents.InstallLocation
    IN  /\ loc \in DOMAIN accumulator
        /\ "lastUpdated" \in DOMAIN accumulator[loc]
        /\ accumulator[loc].lastUpdated >= current.lastUpdated

\* The reducer's test for returning the accumulator unchanged.
KeepsAccumulator(accumulator, current) ==
    LET loc == current.contents.InstallLocation
    IN  /\ loc \in DOMAIN accumulator
        /\ "lastUpdated" \in DOMAIN accumulator[loc]
        /\ accumulator[loc].lastUpdated > current.lastUpdated

RECURSIVE ReduceV3(_, _)
ReduceV3(modlists, accumulator) ==
    IF modlists = <<>> THEN accumulator
    ELSE LET current == Head(modlists)
         IN  IF KeepsAccumulator(accumulator, current)
             THEN ReduceV3(Tail(modlists), accumulator)
             ELSE ReduceV3(Tail(modlists),
                           Spread(accumulator,
                                  current.contents.InstallLocation
                                      :> ModpackRecordV3(current)))

\* The fold run over the files in the reverse of the listing order.
GetInstalledModpacksFromWabbajackV3Reversed(dir) ==
    LET files == InstallSettingsFiles(dir)
        reversed == [i \in 1..Len(files) |-> files[Len(files) + 1 - i]]
    IN  IF \E i \in 1..Len(files) : ~files[i].parses
        THEN [ok |-> FALSE, value |-> EmptyObject]
        ELSE [ok |-> TRUE,
              value |-> ReduceV3([i \in 1..Len(reversed) |-> Modlist(reversed[i])],
                                 EmptyObject)]

GetInstalledModpacksFromWabbajackV3(dir) ==
    LET files == InstallSettingsFiles(dir)
    IN  IF \E i \in 1..Len(files) : ~files[i].parses
        THEN [ok |-> FALSE, value |-> EmptyObject]
        ELSE [ok |-> TRUE,
              value |-> ReduceV3([i \in 1..Len(files) |-> Modlist(files[i])],
                                 EmptyObject)]

\* ------------------------------------------------------------------------
\* WabbajackService.getInstalledModpacks
\* ------------------------------------------------------------------------
\* The spread with its operands swapped: legacy records overwrite.
CombineLegacyWins(v2Modpacks, v3Modpacks) == Spread(v3Modpacks, v2Modpacks)

\* const combined = { ...v2Modpacks, ...v3Modpacks }
Combine(v2Modpacks, v3Modpacks) == Spread(v2Modpacks, v3Modpacks)

\* Result: ok = FALSE when a read throws; isNull when combined has no key.
GetInstalledModpacks(file, dir) ==
    LET v2 == IF file.exists
              THEN GetInstalledModpacksFromWabbajackV2(file)
              ELSE [ok |-> TRUE, value |-> EmptyObject]
        v3 == IF dir.exists
              THEN GetInstalledModpacksFromWabbajackV3(dir.files)
              ELSE [ok |-> TRUE, value |-> EmptyObject]
        combined == Combine(v2.value, v3.value)
    IN  IF ~v2.ok \/ ~v3.ok
        THEN [ok |-> FALSE, isNull |-> FALSE, value |-> EmptyObject]
        ELSE [ok |-> TRUE, isNull |-> DOMAIN combined = {}, value |-> combined]

\* ------------------------------------------------------------------------
\* WabbajackService.getModpackMetadata, getCurrentModpackMetadata,
\* getModpackVersion
\* ------------------------------------------------------------------------
\* modpackService.getModpackDirectory(): the directory this launcher runs
\* from.  The registries name it, or name only the other path, or nothing.
ModpackDirectory == "C:/Wildlander"

\* modpacks && modpacks[path] ? modpacks[path] : null
GetModpackMetadata(file, dir, path) ==
    LET modpacks == GetInstalledModpacks(file, dir)
    IN  IF ~modpacks.ok
        THEN [ok |-> FALSE, isNull |-> FALSE, value |-> EmptyObject]
        ELSE IF ~modpacks.isNull /\ path \in DOMAIN modpacks.value
        THEN [ok |-> TRUE, isNull |-> FALSE, value |-> modpacks.value[path]]
        ELSE [ok |-> TRUE, isNull |-> TRUE, value |-> EmptyObject]

\* The lookup without the ?? "unknown": an absent version is handed on.
GetModpackVersionNoSentinel(file, dir, modpackDirectory) ==
    LET metadata == GetModpackMetadata(file, dir, modpackDirectory)
    IN  IF ~metadata.ok THEN [ok |-> FALSE, version |-> ""]
        ELSE IF ~metadata.isNull /\ "version" \in DOMAIN metadata.value
        THEN [ok |-> TRUE, version |-> metadata.value.version]
        ELSE [ok |-> TRUE, version |-> "undefined"]

\* (await this.getCurrentModpackMetadata())?.version ?? "unknown"
GetModpackVersion(file, dir, modpackDirectory) ==
    LET metadata == GetModpackMetadata(file, dir, modpackDirectory)
    IN  IF ~metadata.ok THEN [ok |-> FALSE, version |-> ""]
        ELSE IF ~metadata.isNull /\ "version" \in DOMAIN metadata.value
        THEN [ok |-> TRUE, version |-> metadata.value.version]
        ELSE [ok |-> TRUE, version |-> "unknown"]

\* ------------------------------------------------------------------------
\* The installers (environment) and the calls on the service.
\* ------------------------------------------------------------------------
NoCall == [op |-> "none", ok |-> TRUE, isNull |-> FALSE, value |-> EmptyObject]

InsertAt(seq, pos, elem) ==
    SubSeq(seq, 1, pos - 1) \o <<elem>> \o SubSeq(seq, pos, Len(seq))

\* Wabbajack 3 leaves a file in saved_settings; its random name puts it at
\* any place of the directory listing.
WabbajackV3Writes ==
    /\ wjCall.op = "none"
    /\ Len(v3Dir.files) < MaxFiles
    /\ \E f \in V3Files, pos \in 1..(Len(v3Dir.files) + 1) :
           v3Dir' = [exists |-> TRUE, files |-> InsertAt(v3Dir.files, pos, f)]
    /\ UNCHANGED <<v2File, wjCall>>
    /\ UNCHANGED resVars
    /\ UNCHANGED cfgVars

\* Wabbajack 3 has run but no install has completed: an empty directory.
WabbajackV3CreatesDir ==
    /\ wjCall.op = "none"
    /\ ~v3Dir.exists
    /\ v3Dir' = [exists |-> TRUE, files |-> <<>>]
    /\ UNCHANGED <<v2File, wjCall>>
    /\ UNCHANGED resVars
    /\ UNCHANGED cfgVars

\* Wabbajack 2 records an install in installed_modlists.json.
WabbajackV2Writes ==
    /\ wjCall.op = "none"
    /\ v2File.parses
    /\ Len(v2File.entries) < MaxLegacy
    /\ \E e \in LegacyEntries :
           v2File' = [exists |-> TRUE, parses |-> TRUE,
                      entries |-> Append(v2File.entries, e)]
    /\ UNCHANGED <<v3Dir, wjCall>>
    /\ UNCHANGED resVars
    /\ UNCHANGED cfgVars

\* installed_modlists.json exists with no modlist, or is cut short.
WabbajackV2WritesEmptyOrCorrupt ==
    /\ wjCall.op = "none"
    /\ ~v2File.exists
    /\ \E p \in BOOLEAN :
           v2File' = [exists |-> TRUE, parses |-> p, entries |-> <<>>]
    /\ UNCHANGED <<v3Dir, wjCall>>
    /\ UNCHANGED resVars
    /\ UNCHANGED cfgVars

CallGetInstalledModpacksFromWabbajackV3 ==
    /\ wjCall.op = "none"
    /\ v3Dir.exists
    /\ LET r == GetInstalledModpacksFromWabbajackV3(v3Dir.files)
       IN  wjCall' = [op |-> "getInstalledModpacksFromWabbajackV3",
                      ok |-> r.ok, isNull |-> FALSE, value |-> r.value]
    /\ UNCHANGED <<v2File, v3Dir>>
    /\ UNCHANGED resVars
    /\ UNCHANGED cfgVars

CallGetInstalledModpacks ==
    /\ wjCall.op = "none"
    /\ LET r == GetInstalledModpacks(v2File, v3Dir)
       IN  wjCall' = [op |-> "getInstalledModpacks",
                      ok |-> r.ok, isNull |-> r.isNull, value |-> r.value]
    /\ UNCHANGED <<v2File, v3Dir>>
    /\ UNCHANGED resVars
    /\ UNCHANGED cfgVars

CallGetModpackVersion ==
    /\ wjCall.op = "none"
    /\ LET r == GetModpackVersion(v2File, v3Dir, ModpackDirectory)
       IN  wjCall' = [op |-> "getModpackVersion", ok |-> r.ok,
                      isNull |-> FALSE, value |-> EmptyObject,
                      version |-> r.version]
    /\ UNCHANGED <<v2File, v3Dir>>
    /\ UNCHANGED resVars
    /\ UNCHANGED cfgVars

\* ------------------------------------------------------------------------
\* ResolutionService: values.
\* ------------------------------------------------------------------------
\* most getResolutions calls of one process
MaxCalls == 2

Calls == 1..MaxCalls

Res(w, h) == [width |-> w, height |-> h]

\* The primary displays of the model: 1920x1080 at scale 1, a 3440x1440
\* ultra-wide panel reported as 1720x720 at scale 2, and a 1780x1000 panel,
\* whose width / height is 1.78.
Displays ==
    { [size |-> Res(1920, 1080), scaleFactor |-> 1],
      [size |-> Res(1720, 720), scaleFactor |-> 2],
      [size |-> Res(1780, 1000), scaleFactor |-> 1] }

Platforms == {"win32", "linux"}

\* The resolutions a user selects: one QRes lists and one it does not.
Selectable == { Res(1280, 720), Res(2560, 1440) }

\* The preference store, with USER_PREFERENCE_KEYS.RESOLUTION its one key.
PrefStores == {EmptyObject} \cup { "resolution" :> r : r \in Selectable }

\* ResolutionService.getCurrentResolution
GetCurrentResolution(d) ==
    Res(d.size.width * d.scaleFactor, d.size.height * d.scaleFactor)

\* ConfigService.hasPreference(RESOLUTION)
HasResolutionPreference(store) == "resolution" \in DOMAIN store

\* ConfigService.getPreference(RESOLUTION)
GetResolutionPreference(store) == store["resolution"]

\* A set that leaves a key the store already has as it is.
SetPreferenceKeepsExisting(store, key, value) == store @@ (key :> value)

\* ConfigService.setPreference(RESOLUTION, value): config.set(key, value)
SetPreference(store, key, value) == (key :> value) @@ store

\* userPreferences.get(key): the exported store that setResolutionInGraphicsSettings
\* reads is the store ConfigService wraps (the write path re-reads the saved
\* preference from that one store).
UserPreferencesGet(store, key) == store[key]

\* ------------------------------------------------------------------------
\* ResolutionService.getSupportedResolutions
\* A line of QRes.exe's stdout is the sequence of its comma-separated
\* fields, a field the sequence of its "x"-separated parts:
\*   "1920x1080, 32 bits @ 60 Hz."  is  << <<"1920","1080">>, <<" 32 bits @ 60 Hz.">> >>
\*   ""                             is  << <<"">> >>
\* ------------------------------------------------------------------------
BlankLine == << <<"">> >>

Banner1 == << <<"QRes v1.1">> >>

Banner2 == << <<"Copyright (C) Anders Kjersem.">> >>

ModeLine(w, h, hz) ==
    << <<ToString(w), ToString(h)>>, <<" 32 bits @ " \o ToString(hz) \o " Hz.">> >>

\* What one run of QRes.exe /L gives: stdout as lines, and stderr.
QResRuns ==
    { [stdout |-> <<Banner1, Banner2,
                    ModeLine(1280, 720, 60),
                    ModeLine(1920, 1080, 60),
                    ModeLine(1920, 1080, 75),
                    ModeLine(1920, 1200, 60),
                    BlankLine>>,
       stderr |-> ""],
      [stdout |-> <<Banner1, Banner2, BlankLine>>, stderr |-> ""],
      [stdout |-> <<>>, stderr |-> "QRes.exe is not recognized"] }

\* .slice(2).filter(r => r !== "").map(r => r.split(",")[0])
SupportedResolutions(stdout) ==
    LET sliced == SubSeq(stdout, 3, Len(stdout))
        kept == SelectSeq(sliced, LAMBDA line : line # BlankLine)
    IN  [i \in 1..Len(kept) |-> kept[i][1]]

\* [...new Set(tokens)]: the first occurrence of each token, in order.
RECURSIVE Unique(_, _)
Unique(tokens, seen) ==
    IF tokens = <<>> THEN <<>>
    ELSE IF Head(tokens) \in seen
         THEN Unique(Tail(tokens), seen)
         ELSE <<Head(tokens)>> \o Unique(Tail(tokens), seen \cup {Head(tokens)})

\* Number(s) for the decimal numerals QRes prints.
Pixels == {720, 1080, 1200, 1280, 1440, 1920, 2560, 3440}

NumberOf(s) == CHOOSE n \in Pixels : ToString(n) = s

\* { width: Number(r.split("x")[0]), height: Number(r.split("x")[1]) }
FormatQRes(token) == Res(NumberOf(token[1]), NumberOf(token[2]))

\* ------------------------------------------------------------------------
\* ResolutionService.sortResolutions, resolutionsContain, Array.sort
\* ------------------------------------------------------------------------
\* previous.width - width || previous.height - height
SortResolutions(resolution, previousResolution) ==
    IF previousResolution.width - resolution.width # 0
    THEN previousResolution.width - resolution.width
    ELSE previousResolution.height - resolution.height

ResolutionsContain(resolutions, resolution) ==
    \E i \in 1..Len(resolutions) :
        /\ resolution.height = resolutions[i].height
        /\ resolution.width = resolutions[i].width

\* Array.prototype.sort(compare): stable; x goes before the first element
\* that compare puts after it.
RECURSIVE InsertSorted(_, _)
InsertSorted(sorted, x) ==
    IF sorted = <<>> THEN <<x>>
    ELSE IF SortResolutions(x, Head(sorted)) < 0
         THEN <<x>> \o sorted
         ELSE <<Head(sorted)>> \o InsertSorted(Tail(sorted), x)

RECURSIVE SortArray(_)
SortArray(resolutions) ==
    IF resolutions = <<>> THEN <<>>
    ELSE InsertSorted(SortArray(SubSeq(resolutions, 1, Len(resolutions) - 1)),
                      resolutions[Len(resolutions)])

\* ------------------------------------------------------------------------
\* ResolutionService.getResolutions: the list each path builds.
\* ------------------------------------------------------------------------
\* The list returned when os.platform() is not "win32".
FallbackResolutions(currentResolution) ==
    << Res(7680, 4320), currentResolution, Res(3440, 1440), Res(1920, 1080) >>

\* Never pushes the current resolution.
WithCurrentNever(resolutions, currentResolution) == resolutions

\* if (!resolutionsContain(resolutions, current)) resolutions.push(current)
WithCurrent(resolutions, currentResolution) ==
    IF ~ResolutionsContain(resolutions, currentResolution)
    THEN Append(resolutions, currentResolution)
    ELSE resolutions

\* Never pushes the saved preference.
WithPreferenceNever(resolutions, store) == resolutions

\* if (hasResolutionPreference() && !resolutionsContain(resolutions, pref))
\*   resolutions.push(pref)
WithPreference(resolutions, store) ==
    IF /\ HasResolutionPreference(store)
       /\ ~ResolutionsContain(resolutions, GetResolutionPreference(store))
    THEN Append(resolutions, GetResolutionPreference(store))
    ELSE resolutions

\* The list built on win32 once getSupportedResolutions has resolved.
EnumeratedResolutions(stdout, currentResolution, store) ==
    LET tokens == Unique(SupportedResolutions(stdout), {})
        resolutions == [i \in 1..Len(tokens) |-> FormatQRes(tokens[i])]
    IN  SortArray(WithPreference(WithCurrent(resolutions, currentResolution), store))

\* ------------------------------------------------------------------------
\* SSEDisplayTweaks.ini and js-ini's parse(text, { comment: "#" }) and
\* stringify(object), as ResolutionService uses them.  The file is a
\* sequence of lines: a comment, a [section] header, a key=value pair, or a
\* line that is none of these.  Values in the file are the words true and
\* false (typed as booleans by parse), other words, and decimal numerals
\* (which parse and stringify give back unchanged).
\* ------------------------------------------------------------------------
IniComment(text) == [kind |-> "comment", name |-> "", value |-> text]

IniSection(name) == [kind |-> "section", name |-> name, value |-> ""]

IniPair(key, value) == [kind |-> "pair", name |-> key, value |-> value]

IniJunk(text) == [kind |-> "junk", name |-> "", value |-> text]

\* The typed value parse gives for the text right of "=".
AutoType(raw) ==
    IF raw = "true" THEN [boolean |-> TRUE]
    ELSE IF raw = "false" THEN [boolean |-> FALSE]
    ELSE [string |-> raw]

\* The text stringify writes for a value.
ValueText(v) ==
    IF "boolean" \in DOMAIN v
    THEN (IF v.boolean THEN "true" ELSE "false")
    ELSE v.string

\* A parsed file: its sections in order of appearance, each
\* [name, entries], entries the sequence of [key, value] in order.
SectionIndex(object, name) ==
    IF \E i \in 1..Len(object) : object[i].name = name
    THEN CHOOSE i \in 1..Len(object) : object[i].name = name
    ELSE 0

HasSection(object, name) == SectionIndex(object, name) # 0

\* entries with entries[key] = value: in place when the key exists, else
\* added last.
SetEntry(entries, key, value) ==
    IF \E i \in 1..Len(entries) : entries[i].key = key
    THEN [i \in 1..Len(entries) |->
             IF entries[i].key = key THEN [key |-> key, value |-> value]
             ELSE entries[i]]
    ELSE Append(entries, [key |-> key, value |-> value])

\* object[section][key] = value, for a section the object has.
SetKey(object, section, key, value) ==
    [i \in 1..Len(object) |->
        IF object[i].name = section
        THEN [name |-> section, entries |-> SetEntry(object[i].entries, key, value)]
        ELSE object[i]]

RECURSIVE ParseLines(_, _, _)
ParseLines(lines, object, currentSection) ==
    IF lines = <<>> THEN [ok |-> TRUE, value |-> object]
    ELSE LET line == Head(lines)
             withSection(name) ==
                 IF HasSection(object, name) THEN object
                 ELSE Append(object, [name |-> name, entries |-> <<>>])
         IN  IF line.kind = "comment"
             THEN ParseLines(Tail(lines), object, currentSection)
             ELSE IF line.kind = "section"
             THEN ParseLines(Tail(lines), withSection(line.name), line.name)
             ELSE IF line.kind = "pair"
             THEN ParseLines(Tail(lines),
                             SetKey(withSection(currentSection), currentSection,
                                    line.name, AutoType(line.value)),
                             currentSection)
             ELSE [ok |-> FALSE, value |-> <<>>]

\* parse: ok = FALSE when a line makes it throw.  Keys before the first
\* header are kept under the section named "".
Parse(lines) == ParseLines(lines, <<>>, "")

RECURSIVE Stringify(_)
Stringify(object) ==
    IF object = <<>> THEN <<>>
    ELSE LET section == Head(object)
             header == IF section.name = "" THEN <<>>
                       ELSE <<IniSection(section.name)>>
             pairs == [i \in 1..Len(section.entries) |->
                          IniPair(section.entries[i].key,
                                  ValueText(section.entries[i].value))]
         IN  header \o pairs \o Stringify(Tail(object))

\* The files of the model.
IniComplete ==
    << IniComment("# SSE Display Tweaks"),
       IniSection("Render"),
       IniPair("Fullscreen", "false"),
       IniPair("Resolution", "1920x1080"),
       IniPair("BorderlessUpscale", "true"),
       IniPair("FramerateLimit", "60"),
       IniSection("Miscellaneous"),
       IniPair("ScreenshotFormat", "png") >>

IniKeysCommented ==
    << IniSection("Render"),
       IniPair("Fullscreen", "false"),
       IniComment("# Resolution=1920x1080"),
       IniComment("# BorderlessUpscale=true"),
       IniSection("Miscellaneous"),
       IniPair("ScreenshotFormat", "png") >>

IniNoRender ==
    << IniSection("Miscellaneous"),
       IniPair("ScreenshotFormat", "png") >>

IniUnparsable ==
    << IniSection("Render"),
       IniJunk("<<<<<<< HEAD"),
       IniPair("Resolution", "1920x1080") >>

NoFile == [exists |-> FALSE, lines |-> <<>>]

IniFiles ==
    { NoFile }
      \cup { [exists |-> TRUE, lines |-> l] :
                l \in {IniComplete, IniKeysCommented, IniNoRender, IniUnparsable} }

\* ------------------------------------------------------------------------
\* ResolutionService.isUltraWidescreen, setResolutionInGraphicsSettings
\* ------------------------------------------------------------------------
\* The comparison made with >= : a ratio of 1.78 counts as ultra-wide.
IsUltraWidescreenNotStrict(resolution) ==
    resolution.width * 100 >= 178 * resolution.height

\* width / height > 1.78, in integers.
IsUltraWidescreen(resolution) == resolution.width * 100 > 178 * resolution.height

\* `${widthPreference}x${heightPreference}` with its operands swapped.
ResolutionStringSwapped(widthPreference, heightPreference) ==
    ToString(heightPreference) \o "x" \o ToString(widthPreference)

\* `${widthPreference}x${heightPreference}`
ResolutionString(widthPreference, heightPreference) ==
    ToString(widthPreference) \o "x" \o ToString(heightPreference)

\* The object written back, with every section but Render dropped.
GraphicSettingsRenderOnly(object, widthPreference, heightPreference, d) ==
    LET only == SelectSeq(object, LAMBDA section : section.name = "Render")
        withResolution ==
            SetKey(only, "Render", "Resolution",
                   [string |-> ResolutionString(widthPreference, heightPreference)])
    IN  SetKey(withResolution, "Render", "BorderlessUpscale",
               [boolean |-> ~IsUltraWidescreen(GetCurrentResolution(d))])

\* The parsed object after the two assignments to its Render section.
GraphicSettings(object, widthPreference, heightPreference, d) ==
    LET withResolution ==
            SetKey(object, "Render", "Resolution",
                   [string |-> ResolutionString(widthPreference, heightPreference)])
    IN  SetKey(withResolution, "Render", "BorderlessUpscale",
               [boolean |-> ~IsUltraWidescreen(GetCurrentResolution(d))])

\* ------------------------------------------------------------------------
\* ResolutionService.getResolutions: one action for each stretch of the
\* async function that runs without suspending.
\* ------------------------------------------------------------------------
NoResolution == Res(0, 0)

\* stderr is the error stream of the QRes.exe run the call awaited.
IdleGetCall ==
    [pc |-> "idle", currentResolution |-> NoResolution, ret |-> <<>>,
     via |-> "none", stderr |-> ""]

\* if (this.resolutionsCache) return this.resolutionsCache;
GetResolutionsCached(c) ==
    /\ grCalls[c].pc = "idle"
    /\ resolutionsCache.filled
    /\ grCalls' = [grCalls EXCEPT ![c] =
                      [pc |-> "done", currentResolution |-> NoResolution,
                       ret |-> resolutionsCache.value, via |-> "cache",
                       stderr |-> ""]]
    /\ UNCHANGED <<platform, display, prefs, resolutionsCache, srCalls, iniFile>>
    /\ UNCHANGED wjVars
    /\ UNCHANGED cfgVars

\* os.platform() !== "win32": the fixed list, returned and not cached.
GetResolutionsFallback(c) ==
    /\ grCalls[c].pc = "idle"
    /\ ~resolutionsCache.filled
    /\ platform # "win32"
    /\ LET currentResolution == GetCurrentResolution(display)
       IN  grCalls' = [grCalls EXCEPT ![c] =
                          [pc |-> "done", currentResolution |-> currentResolution,
                           ret |-> FallbackResolutions(currentResolution),
                           via |-> "fallback", stderr |-> ""]]
    /\ UNCHANGED <<platform, display, prefs, resolutionsCache, srCalls, iniFile>>
    /\ UNCHANGED wjVars
    /\ UNCHANGED cfgVars

\* win32, cache empty: reads the current resolution, starts QRes.exe and
\* suspends at await this.getSupportedResolutions().
GetResolutionsExec(c) ==
    /\ grCalls[c].pc = "idle"
    /\ ~resolutionsCache.filled
    /\ platform = "win32"
    /\ grCalls' = [grCalls EXCEPT ![c] =
                      [pc |-> "exec",
                       currentResolution |-> GetCurrentResolution(display),
                       ret |-> <<>>, via |-> "none", stderr |-> ""]]
    /\ UNCHANGED <<platform, display, prefs, resolutionsCache, srCalls, iniFile>>
    /\ UNCHANGED wjVars
    /\ UNCHANGED cfgVars

\* An enumerator that never throws: the output is used whatever stderr is.
ThrowsOnStderrNever(stderr) == FALSE

\* if (stderr) { ... throw new Error(stderr); }
ThrowsOnStderr(stderr) == stderr # ""

\* QRes.exe has exited: getSupportedResolutions throws on stderr, else the
\* list is built, sorted, stored in the cache and returned.
QResExits(c) ==
    /\ grCalls[c].pc = "exec"
    /\ \E run \in QResRuns :
           IF ThrowsOnStderr(run.stderr)
           THEN /\ grCalls' = [grCalls EXCEPT ![c].pc = "failed",
                                              ![c].stderr = run.stderr]
                /\ UNCHANGED resolutionsCache
           ELSE LET sortedResolutions ==
                        EnumeratedResolutions(run.stdout,
                                              grCalls[c].currentResolution, prefs)
                IN  /\ resolutionsCache' =
                           [filled |-> TRUE, value |-> sortedResolutions]
                    /\ grCalls' = [grCalls EXCEPT ![c].pc = "done",
                                                  ![c].ret = sortedResolutions,
                                                  ![c].via = "enumerated",
                                                  ![c].stderr = run.stderr]
    /\ UNCHANGED <<platform, display, prefs, srCalls, iniFile>>
    /\ UNCHANGED wjVars
    /\ UNCHANGED cfgVars

\* ------------------------------------------------------------------------
\* ResolutionService.setResolution and setResolutionInGraphicsSettings:
\* one action for each stretch between two awaits.
\* ------------------------------------------------------------------------
\* most setResolution calls of one process
MaxSetCalls == 2

SetCalls == 1..MaxSetCalls

\* overlapped records whether another setResolution call was in flight at
\* any moment of this one; it is written by no statement of the program.
IdleSetCall ==
    [pc |-> "idle", selected |-> NoResolution,
     widthPreference |-> 0, heightPreference |-> 0,
     out |-> <<>>, overlapped |-> FALSE]

InFlight(s) == srCalls[s].pc \in {"readFile", "writeFile"}

\* setResolution(resolution): stores the preference, reads it back from
\* the store and suspends at await readFile.
SetResolution(s, resolution) ==
    /\ srCalls[s].pc = "idle"
    /\ prefs' = SetPreference(prefs, "resolution", resolution)
    /\ LET saved == UserPreferencesGet(prefs', "resolution")
           others == \E t \in SetCalls : t # s /\ InFlight(t)
       IN  srCalls' = [t \in SetCalls |->
                          IF t = s
                          THEN [pc |-> "readFile", selected |-> resolution,
                                widthPreference |-> saved.width,
                                heightPreference |-> saved.height,
                                out |-> <<>>, overlapped |-> others]
                          ELSE IF InFlight(t)
                          THEN [srCalls[t] EXCEPT !.overlapped = TRUE]
                          ELSE srCalls[t]]
    /\ UNCHANGED <<platform, display, resolutionsCache, grCalls, iniFile>>
    /\ UNCHANGED wjVars
    /\ UNCHANGED cfgVars

\* A read that gives a Render section with no key for a file that is
\* missing, in place of the rejection.
ReadFileDefaulting(file) ==
    IF file.exists THEN [ok |-> TRUE, lines |-> file.lines]
    ELSE [ok |-> TRUE, lines |-> <<IniSection("Render")>>]

\* await fs.promises.readFile(path, "utf-8"): rejects when there is no
\* file, else resolves with the text.
ReadFile(file) ==
    IF file.exists THEN [ok |-> TRUE, lines |-> file.lines]
    ELSE [ok |-> FALSE, lines |-> <<>>]

\* readFile has settled: the call fails when the file is missing, when
\* parse throws or when the file has no Render section; else it sets the
\* two keys, stringifies and suspends at await writeFile.
ReadFileSettles(s) ==
    /\ srCalls[s].pc = "readFile"
    /\ LET text == ReadFile(iniFile)
           parsed == Parse(text.lines)
       IN  IF ~text.ok \/ ~parsed.ok \/ ~HasSection(parsed.value, "Render")
           THEN srCalls' = [srCalls EXCEPT ![s].pc = "failed"]
           ELSE srCalls' =
                    [srCalls EXCEPT
                        ![s].pc = "writeFile",
                        ![s].out = Stringify(
                            GraphicSettings(parsed.value,
                                            srCalls[s].widthPreference,
                                            srCalls[s].heightPreference,
                                            display))]
    /\ UNCHANGED <<platform, display, prefs, resolutionsCache, grCalls, iniFile>>
    /\ UNCHANGED wjVars
    /\ UNCHANGED cfgVars

\* writeFile has settled: the file holds the text and the call is done.
WriteFileSettles(s) ==
    /\ srCalls[s].pc = "writeFile"
    /\ iniFile' = [exists |-> TRUE, lines |-> srCalls[s].out]
    /\ srCalls' = [srCalls EXCEPT ![s].pc = "done"]
    /\ UNCHANGED <<platform, display, prefs, resolutionsCache, grCalls>>
    /\ UNCHANGED wjVars
    /\ UNCHANGED cfgVars

\* The user changes the primary display or its scaling.
DisplayChanges ==
    /\ \E d \in Displays : d # display /\ display' = d
    /\ UNCHANGED <<platform, prefs, resolutionsCache, grCalls, srCalls, iniFile>>
    /\ UNCHANGED wjVars
    /\ UNCHANGED cfgVars

\* ------------------------------------------------------------------------
\* ConfigService.setDefaultPreferences
\* A value of the store or of a default is a boolean, a string, a number
\* or an object, written [boolean |-> b], [string |-> s], [number |-> n],
\* [object |-> o].
\* ------------------------------------------------------------------------
\* most entries of the preferences given to setDefaultPreferences
MaxDefaults == 2

\* The keys in the order Object.entries gives them.
DefaultKeys == <<"preset", "showHiddenProfile", "graphics">>

\* The defaults given: falsy ones and truthy ones.
DefaultValues ==
    { [boolean |-> FALSE], [boolean |-> TRUE],
      [string |-> ""], [string |-> "Ultra"],
      [number |-> 0] }

\* What a key holds in the store before the call, when it holds anything.
StoredValue == [string |-> "Custom"]

\* An entry's validate is absent, or resolves to true or to false.
Validations == {"none", "valid", "invalid"}

\* The preferences argument: one entry [key, value, validate] for each of
\* the first n keys.
Preferences ==
    UNION { [1..n -> [value : DefaultValues, validate : Validations]] :
                n \in 1..MaxDefaults }

KeyOf(i) == DefaultKeys[i]

DefaultStores ==
    { [k \in keys |-> StoredValue] :
          keys \in SUBSET { DefaultKeys[i] : i \in 1..Len(DefaultKeys) } }

\* JavaScript truthiness of value in "... && value".
Truthy(value) ==
    IF "boolean" \in DOMAIN value THEN value.boolean
    ELSE IF "string" \in DOMAIN value THEN value.string # ""
    ELSE IF "number" \in DOMAIN value THEN value.number # 0
    ELSE TRUE

\* const valid = validate ? await validate() : true
Valid(entry) == entry.validate # "invalid"

\* One pass of the loop body: (!config.has(key) || !valid) && value
SetDefaultPreference(store, key, entry) ==
    IF (key \notin DOMAIN store \/ ~Valid(entry)) /\ Truthy(entry.value)
    THEN SetPreference(store, key, entry.value)
    ELSE store

\* for (const [key, { value, validate }] of Object.entries(preferences))
RECURSIVE SetDefaultPreferences(_, _, _)
SetDefaultPreferences(store, preferences, i) ==
    IF i > Len(preferences) THEN store
    ELSE SetDefaultPreferences(
             SetDefaultPreference(store, KeyOf(i), preferences[i]),
             preferences, i + 1)

NoDefaultsCall == [op |-> "none", preferences |-> <<>>, before |-> EmptyObject]

\* setDefaultPreferences(preferences), to its end.  Nothing else of the
\* model writes the store while it awaits a validator.
CallSetDefaultPreferences ==
    /\ defaultsCall.op = "none"
    /\ \E preferences \in Preferences :
           /\ prefs' = SetDefaultPreferences(prefs, preferences, 1)
           /\ defaultsCall' = [op |-> "setDefaultPreferences",
                               preferences |-> preferences, before |-> prefs]
    /\ UNCHANGED <<platform, display, resolutionsCache, grCalls, srCalls, iniFile>>
    /\ UNCHANGED wjVars

\* The user removes a preference in the editor (editPreferences) or the
\* launcher deletes it (deletePreference).
DeletePreference ==
    /\ defaultsCall.op = "none"
    /\ \E key \in DOMAIN prefs :
           prefs' = [k \in DOMAIN prefs \ {key} |-> prefs[k]]
    /\ UNCHANGED <<platform, display, resolutionsCache, grCalls, srCalls, iniFile>>
    /\ UNCHANGED wjVars
    /\ UNCHANGED cfgVars

\* ------------------------------------------------------------------------
\* Specifications.
\* ------------------------------------------------------------------------
WabbajackAtRest ==
    /\ v2File = [exists |-> FALSE, parses |-> TRUE, entries |-> <<>>]
    /\ v3Dir = [exists |-> FALSE, files |-> <<>>]
    /\ wjCall = NoCall

CallsAtRest ==
    /\ resolutionsCache = [filled |-> FALSE, value |-> <<>>]
    /\ grCalls = [c \in Calls |-> IdleGetCall]
    /\ srCalls = [s \in SetCalls |-> IdleSetCall]
    /\ defaultsCall = NoDefaultsCall

\* The registry files are written and one WabbajackService call is made.
InitWabbajack ==
    /\ WabbajackAtRest
    /\ CallsAtRest
    /\ platform = "win32"
    /\ display = [size |-> Res(1920, 1080), scaleFactor |-> 1]
    /\ prefs = EmptyObject
    /\ iniFile = NoFile

NextWabbajack ==
    \/ WabbajackV3Writes
    \/ WabbajackV3CreatesDir
    \/ WabbajackV2Writes
    \/ WabbajackV2WritesEmptyOrCorrupt
    \/ CallGetInstalledModpacksFromWabbajackV3
    \/ CallGetInstalledModpacks
    \/ CallGetModpackVersion

SpecWabbajack == InitWabbajack /\ [][NextWabbajack]_vars

\* getResolutions calls, with one setResolution call and display changes
\* among them, on either platform and from any saved preference.
InitResolutions ==
    /\ WabbajackAtRest
    /\ CallsAtRest
    /\ platform \in Platforms
    /\ display \in Displays
    /\ prefs \in PrefStores
    /\ iniFile = [exists |-> TRUE, lines |-> IniComplete]

NextResolutions ==
    \/ \E c \in Calls : GetResolutionsCached(c)
    \/ \E c \in Calls : GetResolutionsFallback(c)
    \/ \E c \in Calls : GetResolutionsExec(c)
    \/ \E c \in Calls : QResExits(c)
    \/ \E r \in Selectable : SetResolution(1, r)
    \/ ReadFileSettles(1)
    \/ WriteFileSettles(1)
    \/ DisplayChanges

SpecResolutions == InitResolutions /\ [][NextResolutions]_vars

\* setResolution calls against every file of the model.
InitProjection ==
    /\ WabbajackAtRest
    /\ CallsAtRest
    /\ platform = "win32"
    /\ display \in Displays
    /\ prefs \in PrefStores
    /\ iniFile \in IniFiles

NextProjection ==
    \/ \E s \in SetCalls, r \in Selectable : SetResolution(s, r)
    \/ \E s \in SetCalls : ReadFileSettles(s)
    \/ \E s \in SetCalls : WriteFileSettles(s)
    \/ DisplayChanges

SpecProjection == InitProjection /\ [][NextProjection]_vars

\* One setDefaultPreferences call on any store.
InitDefaults ==
    /\ WabbajackAtRest
    /\ CallsAtRest
    /\ platform = "win32"
    /\ display = [size |-> Res(1920, 1080), scaleFactor |-> 1]
    /\ prefs \in DefaultStores
    /\ iniFile = NoFile

NextDefaults ==
    \/ CallSetDefaultPreferences
    \/ DeletePreference

SpecDefaults == InitDefaults /\ [][NextDefaults]_vars

\* ------------------------------------------------------------------------
\* Properties of the registry resolution.
\* ------------------------------------------------------------------------
\* The install-settings files of the directory that name install path p.
FilesFor(p) ==
    LET files == InstallSettingsFiles(v3Dir.files)
    IN  { i \in 1..Len(files) : files[i].contents.InstallLocation = p }

\* Record r carries the title, version and lastUpdated of file f.
CarriesFile(r, f) ==
    /\ "lastUpdated" \in DOMAIN r
    /\ r.lastUpdated = f.mtime
    /\ r.installPath = f.contents.InstallLocation
    /\ IF "Metadata" \in DOMAIN f.contents
       THEN /\ "title" \in DOMAIN r /\ r.title = f.contents.Metadata.title
            /\ "version" \in DOMAIN r /\ r.version = f.contents.Metadata.version
       ELSE "title" \notin DOMAIN r /\ "version" \notin DOMAIN r

ReturnedMapping ==
    /\ wjCall.op \in {"getInstalledModpacksFromWabbajackV3", "getInstalledModpacks"}
    /\ wjCall.ok

\* C1: when two or more install-settings files name the same InstallLocation
\* with pairwise distinct modification times, the record returned for that
\* path (by getInstalledModpacksFromWabbajackV3 and by getInstalledModpacks)
\* carries the title, version and lastUpdated of the file modified last,
\* wherever that file stands in the listing.
C1_RecencyTieBreak ==
    ReturnedMapping =>
        \A p \in InstallPaths :
            LET files == InstallSettingsFiles(v3Dir.files)
            IN  (/\ Cardinality(FilesFor(p)) >= 2
                 /\ \A i, j \in FilesFor(p) :
                        i # j => files[i].mtime # files[j].mtime)
                => /\ p \in DOMAIN wjCall.value
                   /\ \E i \in FilesFor(p) :
                          /\ \A j \in FilesFor(p) : files[j].mtime <= files[i].mtime
                          /\ CarriesFile(wjCall.value[p], files[i])

\* A call has returned while the file modified last is listed first.
C1_Witness ==
    /\ ReturnedMapping
    /\ \E p \in InstallPaths :
           LET files == InstallSettingsFiles(v3Dir.files)
           IN  \E i, j \in FilesFor(p) :
                   /\ i < j
                   /\ files[i].mtime > files[j].mtime
                   /\ files[i].contents # files[j].contents

LegacyHas(p) ==
    /\ v2File.exists
    /\ \E i \in 1..Len(v2File.entries) : v2File.entries[i].InstallationPath = p

CurrentHas(p) == v3Dir.exists /\ FilesFor(p) # {}

\* C2: when installed_modlists.json and saved_settings both hold a record
\* for install path p, getInstalledModpacks returns for p the record of an
\* install-settings file, with its lastUpdated, whatever its modification
\* time; a record without lastUpdated (a legacy one) is returned only for a
\* path that no install-settings file names.
C2_TimestampAbsence ==
    (wjCall.op = "getInstalledModpacks" /\ wjCall.ok) =>
        \A p \in InstallPaths :
            LET files == InstallSettingsFiles(v3Dir.files)
            IN  /\ (LegacyHas(p) /\ CurrentHas(p))
                   => /\ p \in DOMAIN wjCall.value
                      /\ \E i \in FilesFor(p) :
                             CarriesFile(wjCall.value[p], files[i])
                /\ (p \in DOMAIN wjCall.value
                    /\ "lastUpdated" \notin DOMAIN wjCall.value[p])
                   => (LegacyHas(p) /\ ~CurrentHas(p))
                /\ (LegacyHas(p) /\ ~CurrentHas(p))
                   => /\ p \in DOMAIN wjCall.value
                      /\ "lastUpdated" \notin DOMAIN wjCall.value[p]

\* getInstalledModpacks has returned with both registries naming one path.
C2_Witness ==
    /\ wjCall.op = "getInstalledModpacks"
    /\ wjCall.ok
    /\ \E p \in InstallPaths : LegacyHas(p) /\ CurrentHas(p)

\* Every registry file there is can be parsed as JSON.
RegistriesParse ==
    /\ v2File.exists => v2File.parses
    /\ v3Dir.exists =>
           LET files == InstallSettingsFiles(v3Dir.files)
           IN  \A i \in 1..Len(files) : files[i].parses

\* The version an install-settings file gives, "unknown" when it has no
\* Metadata.
VersionOfFile(f) ==
    IF "Metadata" \in DOMAIN f.contents THEN f.contents.Metadata.version
    ELSE "unknown"

\* C12 as stated: in every state of the two registries, one of them not
\* parsable as JSON included, getModpackVersion returns a version or
\* "unknown" and never ends in an error.
C12_VersionLookupNeverFails ==
    wjCall.op = "getModpackVersion"
        => /\ wjCall.ok
           /\ wjCall.version # ""

\* C12 as amended: getModpackVersion ends in an error exactly when a
\* registry file that exists is not parsable as JSON; otherwise it returns
\* "unknown" when no registry has a record for the install directory, the
\* Version of the legacy entry when only installed_modlists.json has one,
\* and else the Metadata.version of an install-settings file naming the
\* directory, or "unknown" when that file has no Metadata.
C12_VersionLookupFailsOnlyOnUnparsable ==
    wjCall.op = "getModpackVersion"
        => LET p == ModpackDirectory
               files == InstallSettingsFiles(v3Dir.files)
           IN  /\ wjCall.ok <=> RegistriesParse
               /\ wjCall.ok =>
                     /\ (~LegacyHas(p) /\ ~CurrentHas(p))
                            => wjCall.version = "unknown"
                     /\ (LegacyHas(p) /\ ~CurrentHas(p))
                            => \E i \in 1..Len(v2File.entries) :
                                   /\ v2File.entries[i].InstallationPath = p
                                   /\ wjCall.version =
                                          v2File.entries[i].ModList.Version
                     /\ CurrentHas(p)
                            => \E i \in FilesFor(p) :
                                   wjCall.version = VersionOfFile(files[i])

\* getModpackVersion has returned "unknown" for a directory that a legacy
\* entry with a version and an install-settings file without Metadata name.
C12_Witness ==
    /\ wjCall.op = "getModpackVersion"
    /\ wjCall.ok
    /\ wjCall.version = "unknown"
    /\ LegacyHas(ModpackDirectory)
    /\ CurrentHas(ModpackDirectory)
\* C16: the record returned for an install path is that of the file listed
\* last among the install-settings files naming the path with the latest
\* modification time: of two files with equal times the one listed later
\* supplies the record, and an earlier file's record stays only when its
\* time is strictly later than that of every file listed after it.
C16_TiesPreferIncoming ==
    ReturnedMapping =>
        \A p \in InstallPaths :
            LET files == InstallSettingsFiles(v3Dir.files)
            IN  FilesFor(p) # {}
                => /\ p \in DOMAIN wjCall.value
                   /\ \E i \in FilesFor(p) :
                          /\ \A j \in FilesFor(p) :
                                 \/ files[j].mtime < files[i].mtime
                                 \/ (files[j].mtime = files[i].mtime /\ j <= i)
                          /\ CarriesFile(wjCall.value[p], files[i])

\* A call has returned with two files of equal time and different contents
\* naming one path.
C16_Witness ==
    /\ ReturnedMapping
    /\ \E p \in InstallPaths :
           LET files == InstallSettingsFiles(v3Dir.files)
           IN  \E i, j \in FilesFor(p) :
                   /\ i < j
                   /\ files[i].mtime = files[j].mtime
                   /\ files[i].contents # files[j].contents
                   /\ CarriesFile(wjCall.value[p], files[j])
                   /\ ~CarriesFile(wjCall.value[p], files[i])
\* The record of an install-settings file, as the reconcile takes it:
\* install path and modification time, title and version when given.
CurrentRecord(f) ==
    IF "Metadata" \in DOMAIN f.contents
    THEN [title |-> f.contents.Metadata.title,
          installPath |-> f.contents.InstallLocation,
          version |-> f.contents.Metadata.version,
          lastUpdated |-> f.mtime]
    ELSE [installPath |-> f.contents.InstallLocation, lastUpdated |-> f.mtime]

\* The reconcile as specified: from mapping, the candidates are folded in
\* in listing order; the existing entry stays only when it and the
\* candidate have a lastUpdated and the existing one is strictly later.
RECURSIVE Reconcile(_, _)
Reconcile(mapping, candidates) ==
    IF candidates = <<>> THEN mapping
    ELSE LET candidate == Head(candidates)
             path == candidate.installPath
             keeps == /\ path \in DOMAIN mapping
                      /\ "lastUpdated" \in DOMAIN mapping[path]
                      /\ "lastUpdated" \in DOMAIN candidate
                      /\ mapping[path].lastUpdated > candidate.lastUpdated
         IN  Reconcile(IF keeps THEN mapping
                       ELSE [q \in DOMAIN mapping \cup {path} |->
                                IF q = path THEN candidate ELSE mapping[q]],
                       Tail(candidates))

\* The mapping read from installed_modlists.json, empty when there is no file.
LegacyMapping ==
    IF v2File.exists THEN GetInstalledModpacksFromWabbajackV2(v2File).value
    ELSE EmptyObject

\* C17: the mapping getInstalledModpacks returns (the install-settings
\* records folded from an empty mapping, laid over the legacy mapping) is
\* the mapping of the specified reconcile: the legacy mapping with the
\* install-settings records folded in, in listing order.
C17_FoldEquivalence ==
    (wjCall.op = "getInstalledModpacks" /\ wjCall.ok) =>
        LET files == InstallSettingsFiles(v3Dir.files)
        IN  wjCall.value =
                Reconcile(LegacyMapping,
                          [i \in 1..Len(files) |-> CurrentRecord(files[i])])

\* getInstalledModpacks has returned where a legacy entry and two
\* install-settings files name one path, the file listed first being the
\* newer.
C17_Witness ==
    /\ wjCall.op = "getInstalledModpacks"
    /\ wjCall.ok
    /\ \E p \in InstallPaths :
           LET files == InstallSettingsFiles(v3Dir.files)
           IN  /\ LegacyHas(p)
               /\ \E i, j \in FilesFor(p) :
                      i < j /\ files[i].mtime > files[j].mtime

\* ------------------------------------------------------------------------
\* Properties of getResolutions.
\* ------------------------------------------------------------------------
\* Call c returns in this step.
Returns(c) == grCalls[c].pc # "done" /\ grCalls'[c].pc = "done"

\* Call c is entered in this step.
Enters(c) == grCalls[c].pc = "idle" /\ grCalls'[c].pc # "idle"

NoDuplicates(resolutions) ==
    \A i, j \in 1..Len(resolutions) :
        (/\ resolutions[i].width = resolutions[j].width
         /\ resolutions[i].height = resolutions[j].height) => i = j

SortedDescending(resolutions) ==
    \A i \in 1..(Len(resolutions) - 1) :
        LET a == resolutions[i]
            b == resolutions[i + 1]
        IN  \/ a.width > b.width
            \/ (a.width = b.width /\ a.height >= b.height)

Listed(resolutions, r) ==
    \E i \in 1..Len(resolutions) : resolutions[i] = r

\* C3 as stated: whenever a saved resolution preference exists, the
\* sequence a getResolutions call returns contains it, on either platform
\* and for calls served from the cache.
C3_SavedPreferenceAlwaysIncluded ==
    [][\A c \in Calls :
          (Returns(c) /\ HasResolutionPreference(prefs'))
              => Listed(grCalls'[c].ret, GetResolutionPreference(prefs'))]_vars

\* C3 as amended: on win32, the sequence a getResolutions call builds once
\* the enumeration has resolved (the one it caches and returns) contains the
\* resolution preference saved at that moment.
C3_SavedPreferenceIncludedWhenBuilt ==
    [][\A c \in Calls :
          (/\ Returns(c)
           /\ grCalls'[c].via = "enumerated"
           /\ HasResolutionPreference(prefs))
              => /\ Listed(grCalls'[c].ret, GetResolutionPreference(prefs))
                 /\ resolutionsCache'.value = grCalls'[c].ret]_vars

\* An enumerating call has returned a list that holds a saved preference
\* QRes does not list.
C3_Witness ==
    \E c \in Calls :
        /\ grCalls[c].pc = "done"
        /\ grCalls[c].via = "enumerated"
        /\ HasResolutionPreference(prefs)
        /\ GetResolutionPreference(prefs) = Res(2560, 1440)
        /\ Listed(grCalls[c].ret, Res(2560, 1440))

\* C4: no sequence returned by getResolutions holds two records with the
\* same width and height, on the enumerated path and on the fallback path.
C4_NoDuplicates ==
    \A c \in Calls : grCalls[c].pc = "done" => NoDuplicates(grCalls[c].ret)

\* C5: every sequence returned by getResolutions is sorted descending by
\* width, then by height, on the enumerated path and on the fallback path.
C5_SortOrder ==
    \A c \in Calls : grCalls[c].pc = "done" => SortedDescending(grCalls[c].ret)

\* C6 as stated: the sequence a getResolutions call returns is non-empty
\* and contains the hardware resolution current at the return, also for
\* calls answered from the cache.
C6_CurrentResolutionAlwaysIncluded ==
    [][\A c \in Calls :
          Returns(c)
              => /\ grCalls'[c].ret # <<>>
                 /\ Listed(grCalls'[c].ret, GetCurrentResolution(display'))]_vars

\* C6 as amended: every returned sequence is non-empty; a call that builds
\* its list (fallback or enumerated) returns one containing the hardware
\* resolution it read when entered; a call answered from the cache returns
\* the list of an enumerating call, and the cache holds such a list.
C6_CurrentResolutionIncludedWhenBuilt ==
    /\ \A c \in Calls :
           grCalls[c].pc = "done"
               => /\ grCalls[c].ret # <<>>
                  /\ grCalls[c].via \in {"fallback", "enumerated"}
                         => Listed(grCalls[c].ret, grCalls[c].currentResolution)
                  /\ grCalls[c].via = "cache"
                         => \E d \in Calls :
                                /\ grCalls[d].pc = "done"
                                /\ grCalls[d].via = "enumerated"
                                /\ grCalls[d].ret = grCalls[c].ret
    /\ resolutionsCache.filled
           => \E d \in Calls :
                  /\ grCalls[d].pc = "done"
                  /\ grCalls[d].via = "enumerated"
                  /\ grCalls[d].ret = resolutionsCache.value

\* An enumerating call has returned the current resolution alone: QRes
\* listed nothing and no preference was saved.
C6_Witness ==
    \E c \in Calls :
        /\ grCalls[c].pc = "done"
        /\ grCalls[c].via = "enumerated"
        /\ grCalls[c].ret = <<grCalls[c].currentResolution>>

\* C7: once a getResolutions call has returned, every call entered later
\* returns the identical sequence without starting QRes.exe, on either
\* platform and whatever happened in between.
C7_CacheIdentical ==
    [][\A c, d \in Calls :
          (c # d /\ grCalls[d].pc = "done" /\ Enters(c))
              => /\ grCalls'[c].pc = "done"
                 /\ grCalls'[c].ret = grCalls[d].ret]_vars

\* C8: at most one run of QRes.exe is outstanding at a time, and the cache
\* is assigned at most once in the process lifetime.
C8_SinglePopulation ==
    /\ Cardinality({ c \in Calls : grCalls[c].pc = "exec" }) <= 1
    /\ Cardinality({ c \in Calls : grCalls[c].via = "enumerated" }) <= 1

\* The QRes.exe run call c awaited ends in this step.
Resumes(c) == grCalls[c].pc = "exec" /\ grCalls'[c].pc # "exec"

\* C13: on win32, when QRes.exe has written to its error stream, the
\* getResolutions call that awaited it ends in an error: it returns no
\* list (neither the fallback nor the current resolution alone), does not
\* assign the cache, and stays failed; the cache is filled by no call but
\* one that enumerated, so while it is unfilled the next call on win32
\* starts QRes.exe again.
C13_EnumerationFailureFatal ==
    [][/\ \A c \in Calls :
            /\ (Resumes(c) /\ grCalls'[c].stderr # "")
                  => /\ grCalls'[c].pc = "failed"
                     /\ grCalls'[c].ret = <<>>
                     /\ grCalls'[c].via = "none"
                     /\ resolutionsCache' = resolutionsCache
            /\ grCalls[c].pc = "failed" => grCalls'[c] = grCalls[c]
            /\ (Enters(c) /\ ~resolutionsCache.filled /\ platform = "win32")
                  => grCalls'[c].pc = "exec"
       /\ (\A d \in Calls : grCalls[d].via # "enumerated")
              => ~resolutionsCache.filled]_vars

\* A call has failed on QRes.exe's error stream, the cache is unfilled and
\* another call has started QRes.exe.
C13_Witness ==
    \E c, d \in Calls :
        /\ grCalls[c].pc = "failed"
        /\ grCalls[c].stderr # ""
        /\ ~resolutionsCache.filled
        /\ grCalls[d].pc = "exec"

\* ------------------------------------------------------------------------
\* Properties of setResolution.
\* ------------------------------------------------------------------------
\* Call s completes successfully in this step.
Completes(s) == srCalls[s].pc = "writeFile" /\ srCalls'[s].pc = "done"

\* The section a line of the file belongs to: the last header before it.
SectionOfLine(lines, i) ==
    LET headers == { j \in 1..(i - 1) : lines[j].kind = "section" }
    IN  IF headers = {} THEN ""
        ELSE lines[CHOOSE j \in headers : \A k \in headers : k <= j].name

\* The lines of the file that give key in section.
KeyLines(lines, section, key) ==
    { i \in 1..Len(lines) :
        /\ lines[i].kind = "pair"
        /\ lines[i].name = key
        /\ SectionOfLine(lines, i) = section }

\* The file gives key in section, with this text and no other.
FileHas(file, section, key, text) ==
    /\ file.exists
    /\ KeyLines(file.lines, section, key) # {}
    /\ \A i \in KeyLines(file.lines, section, key) : file.lines[i].value = text

\* C9: when a setResolution(selected) call that no other setResolution call
\* overlaps completes successfully, the saved preference equals selected
\* and the file's Render.Resolution is "<width>x<height>" of that preference.
C9_ProjectionResult ==
    [][\A s \in SetCalls :
          (Completes(s) /\ ~srCalls[s].overlapped)
              => /\ HasResolutionPreference(prefs')
                 /\ GetResolutionPreference(prefs') = srCalls[s].selected
                 /\ FileHas(iniFile', "Render", "Resolution",
                            ToString(GetResolutionPreference(prefs').width)
                                \o "x"
                                \o ToString(GetResolutionPreference(prefs').height))]_vars

\* A call no other overlapped has completed and the file holds 2560x1440.
C9_Witness ==
    \E s \in SetCalls :
        /\ srCalls[s].pc = "done"
        /\ ~srCalls[s].overlapped
        /\ srCalls[s].selected = Res(2560, 1440)
        /\ FileHas(iniFile, "Render", "Resolution", "2560x1440")

\* The sections a file gives: its headers.
FileSections(lines) ==
    { lines[i].name : i \in { k \in 1..Len(lines) : lines[k].kind = "section" } }

\* The keys a file gives, each with its section.
FileKeys(lines) ==
    { <<SectionOfLine(lines, i), lines[i].name>> :
          i \in { k \in 1..Len(lines) : lines[k].kind = "pair" } }

\* The value a file gives a key: that of the last line giving it,
\* as true, false or text.
FileValue(lines, section, key) ==
    LET given == KeyLines(lines, section, key)
        last == CHOOSE i \in given : \A k \in given : k <= i
    IN  IF lines[last].value \in {"true", "false"}
        THEN <<"boolean", lines[last].value>>
        ELSE <<"string", lines[last].value>>

Projected == { <<"Render", "Resolution">>, <<"Render", "BorderlessUpscale">> }

\* Every key but the two of Render has in after the value it has in before.
OtherKeysKept(before, after) ==
    \A k \in FileKeys(before) \ Projected :
        /\ k \in FileKeys(after)
        /\ FileValue(after, k[1], k[2]) = FileValue(before, k[1], k[2])

\* C10 as stated: a successful setResolution changes only Render.Resolution
\* and Render.BorderlessUpscale of the parsed file; every other key keeps
\* its value, and no section or key is added or removed.
C10_FrameNothingAdded ==
    [][\A s \in SetCalls :
          Completes(s)
              => /\ OtherKeysKept(iniFile.lines, iniFile'.lines)
                 /\ FileSections(iniFile'.lines) = FileSections(iniFile.lines)
                 /\ FileKeys(iniFile'.lines) = FileKeys(iniFile.lines)]_vars

\* C10 as amended: every other key keeps its value, no section is added or
\* removed and no key is removed; the only keys a rewrite adds are
\* Resolution and BorderlessUpscale of Render, when the file lacked them.
C10_FrameOnlyProjectedAdded ==
    [][\A s \in SetCalls :
          Completes(s)
              => /\ OtherKeysKept(iniFile.lines, iniFile'.lines)
                 /\ FileSections(iniFile'.lines) = FileSections(iniFile.lines)
                 /\ FileKeys(iniFile'.lines) = FileKeys(iniFile.lines) \cup Projected]_vars

\* A call has rewritten the complete file: Resolution is new, the keys of
\* the other section and the other keys of Render are in the file.
C10_Witness ==
    \E s \in SetCalls :
        /\ srCalls[s].pc = "done"
        /\ FileHas(iniFile, "Render", "Resolution", "1280x720")
        /\ FileHas(iniFile, "Render", "FramerateLimit", "60")
        /\ FileHas(iniFile, "Miscellaneous", "ScreenshotFormat", "png")

\* Call s resumes after readFile in this step and goes on to writeFile.
Projects(s) == srCalls[s].pc = "readFile" /\ srCalls'[s].pc = "writeFile"

\* The lines of a text that give key in section all hold this text.
TextHas(lines, section, key, text) ==
    /\ KeyLines(lines, section, key) # {}
    /\ \A i \in KeyLines(lines, section, key) : lines[i].value = text

\* The word stringify writes for the negation of width / height > 1.78.
UpscaleText(width, height) ==
    IF width * 100 > 178 * height THEN "false" ELSE "true"

Fails(s) == srCalls[s].pc # "failed" /\ srCalls'[s].pc = "failed"

\* C14: when SSEDisplayTweaks.ini does not exist as setResolution resumes
\* from readFile, the call ends in an error and goes no further; and no
\* step of any call creates or writes a file that does not exist.
C14_MissingFileFatal ==
    [][/\ \A s \in SetCalls :
            /\ (srCalls[s].pc = "readFile" /\ srCalls'[s] # srCalls[s]
                 /\ srCalls'[s].pc # "readFile" /\ ~iniFile.exists)
                  => /\ srCalls'[s].pc = "failed"
                     /\ srCalls'[s].out = <<>>
            /\ srCalls[s].pc = "failed" => srCalls'[s] = srCalls[s]
       /\ ~iniFile.exists => iniFile' = iniFile]_vars

\* Every setResolution call has ended in an error and there is no file.
C14_Witness ==
    /\ ~iniFile.exists
    /\ \A s \in SetCalls : srCalls[s].pc = "failed"

\* ------------------------------------------------------------------------
\* Properties of setDefaultPreferences.
\* ------------------------------------------------------------------------
\* C15: after setDefaultPreferences(preferences), for every key given, the
\* store holds the default when the key did not exist before the call or
\* its validator reported invalid, also for false, "" and 0; a key that
\* existed and is valid, or has no validator, holds its previous value.
C15_DefaultsSet ==
    defaultsCall.op = "setDefaultPreferences"
        => \A i \in 1..Len(defaultsCall.preferences) :
               LET key == KeyOf(i)
                   entry == defaultsCall.preferences[i]
                   before == defaultsCall.before
               IN  IF key \notin DOMAIN before \/ entry.validate = "invalid"
                   THEN /\ key \in DOMAIN prefs
                        /\ prefs[key] = entry.value
                   ELSE prefs[key] = before[key]

\* C18: once two setResolution calls with different resolutions have both
\* completed successfully, in whatever order their reads and writes
\* settled, the file's Render.Resolution is the "<width>x<height>" of the
\* saved preference.
C18_StoreFileAgreement ==
    (/\ \A s \in SetCalls : srCalls[s].pc = "done"
     /\ \E s, t \in SetCalls : srCalls[s].selected # srCalls[t].selected)
        => /\ HasResolutionPreference(prefs)
           /\ FileHas(iniFile, "Render", "Resolution",
                      ToString(GetResolutionPreference(prefs).width)
                          \o "x"
                          \o ToString(GetResolutionPreference(prefs).height))

\* C19 as stated: when a setResolution(selected) call ends in an error on
\* reading or parsing the file, the saved preference equals selected and
\* the file is unchanged.
C19_NoRollbackEqualsSelected ==
    [][\A s \in SetCalls :
          Fails(s)
              => /\ iniFile' = iniFile
                 /\ HasResolutionPreference(prefs')
                 /\ GetResolutionPreference(prefs') = srCalls[s].selected]_vars

\* C19 as amended: when a setResolution(selected) call ends in an error on
\* reading or parsing the file, the file is unchanged and the preference
\* stored on entry is not rolled back: the saved preference equals
\* selected when no other setResolution call overlapped this one, and else
\* the resolution selected by one of the calls.
C19_NoRollback ==
    [][\A s \in SetCalls :
          Fails(s)
              => /\ iniFile' = iniFile
                 /\ prefs' = prefs
                 /\ HasResolutionPreference(prefs')
                 /\ ~srCalls[s].overlapped
                        => GetResolutionPreference(prefs') = srCalls[s].selected
                 /\ \E t \in SetCalls :
                        /\ srCalls[t].pc # "idle"
                        /\ GetResolutionPreference(prefs') = srCalls[t].selected]_vars

\* A call no other overlapped has failed on a file that cannot be parsed:
\* the store holds 1280x720 and the file still says 1920x1080.
C19_Witness ==
    \E s \in SetCalls :
        /\ srCalls[s].pc = "failed"
        /\ ~srCalls[s].overlapped
        /\ srCalls[s].selected = Res(1280, 720)
        /\ GetResolutionPreference(prefs) = Res(1280, 720)
        /\ iniFile = [exists |-> TRUE, lines |-> IniUnparsable]
        /\ FileHas(iniFile, "Render", "Resolution", "1920x1080")

=============================================================================
